---- MODULE Spec2Model ----
(***************************************************************************)
(* sel::State (include/selene/State.h): ownership of a lua_State handle,   *)
(* the stack discipline of its operations, error reporting and the         *)
(* enumeration of global names.                                            *)
(*                                                                         *)
(* Every public operation of State is one action.  An action runs the      *)
(* whole member function; the VM calls it issues are recorded, in order,   *)
(* in `log`, and `last` describes the call (who, on which handle, the      *)
(* stack depth at entry, the value returned).                              *)
(***************************************************************************)
EXTENDS Integers, Sequences, FiniteSets, TLC

\* ----------------------------------------------------------------- bounds
NObj == 2            \* State objects the host program constructs
NHandles == 2        \* lua_State instances luaL_newstate can hand out
MaxDepth == 1        \* values an unguarded operation may leave on a stack
NCallbacks == 1      \* distinct callbacks the host passes to HandleExceptionsWith
MaxResults == 1      \* values a chunk returns (LUA_MULTRET)

\* ------------------------------------------------------ program constants
Null == 0            \* nullptr (lua_State*, unique_ptr)
lua_ok == 0          \* LUA_OK / 0
LUA_ERRRUN == 2
LUA_ERRSYNTAX == 3
LUA_ERRMEM == 4
LUA_ERRFILE == 7

Obj == 1..NObj
Handles == 1..NHandles
DefaultCb == 1                         \* the printer HandleExceptionsPrintingToStdOut installs
UserCbs == 2..(1 + NCallbacks)         \* callbacks given to HandleExceptionsWith

\* ------------------------------------------------------------- VM values
Str(s) == [tag |-> "string", s |-> s, n |-> 0]
Num(n) == [tag |-> "number", s |-> "", n |-> n]
NilV == [tag |-> "nil", s |-> "", n |-> 0]
BoolV == [tag |-> "boolean", s |-> "true", n |-> 0]
TableV(name) == [tag |-> "table", s |-> name, n |-> 0]
FuncV(name) == [tag |-> "function", s |-> name, n |-> 0]

NoMsg == "<NULL>"                      \* lua_tostring returning a null char*

Digit(d) == CASE d = 0 -> "0" [] d = 1 -> "1" [] d = 2 -> "2" [] d = 3 -> "3"
              [] d = 4 -> "4" [] d = 5 -> "5" [] d = 6 -> "6" [] d = 7 -> "7"
              [] d = 8 -> "8" [] OTHER -> "9"

RECURSIVE Decimal(_)
Decimal(n) == IF n < 10 THEN Digit(n) ELSE Decimal(n \div 10) \o Digit(n % 10)

\* sprintf_s(buf, "%g", x) for the integral values the model stores
FormatG(n) == IF n < 0 THEN "-" \o Decimal(0 - n) ELSE Decimal(n)

\* lua_tostring(L, idx): the text of a string, the text of a number, else NULL
lua_tostring(v) == CASE v.tag = "string" -> v.s
                     [] v.tag = "number" -> FormatG(v.n)
                     [] OTHER -> NoMsg

\* lua_settop(L, n): drop what is above n, or pad with nil up to n
RECURSIVE Nils(_)
Nils(k) == IF k <= 0 THEN <<>> ELSE <<NilV>> \o Nils(k - 1)

lua_settop(stk, d) == IF Len(stk) >= d THEN SubSeq(stk, 1, d)
                      ELSE stk \o Nils(d - Len(stk))

lua_pop(stk, k) == lua_settop(stk, Len(stk) - k)

\* ------------------------------------------------------------ log events
VM(ev, h) == [ev |-> ev, h |-> h, cb |-> 0, code |-> 0, msg |-> ""]
Callback(cb, code, msg) == [ev |-> "callback", h |-> 0, cb |-> cb, code |-> code, msg |-> msg]

\* outcome of one member function: the handle's stack and global table
\* afterwards, the VM calls made, the return value, and how the call ended
Outcome(stk, glb, lg, ret, flt) ==
    [stack |-> stk, globals |-> glb, log |-> lg, ret |-> ret, names |-> <<>>, fault |-> flt]

\* ---------------------------------------------------- collaborators
\* ResetStackOnScopeExit (util.h): records lua_gettop at construction and
\* lua_settop's back to it at scope exit
savedStack(stk) == Len(stk)
ResetStack(stk, saved) == lua_settop(stk, saved)

\* ExceptionHandler::Handle (exception.h): calls the stored callback
Handle(hp, status, msg) == <<Callback(hp, status, msg)>>

\* a Handle_top_of_stack that reads the first slot of the stack
Handle_first_slot(hp, status, stk) == Handle(hp, status, lua_tostring(stk[1]))

\* ExceptionHandler::Handle_top_of_stack: the message is the stack top
Handle_top_of_stack(hp, status, stk) == Handle(hp, status, lua_tostring(stk[Len(stk)]))

\* luaL_dostring(L, s) is (luaL_loadstring(L, s) || lua_pcall(L, 0, LUA_MULTRET, 0))
luaL_dostring(compile, run) == IF compile # lua_ok \/ run # lua_ok THEN 1 ELSE 0


\* ------------------------------------------------------------ the inputs
Files == {"a.lua"}
ModNames == {"debug"}
ErrVals == {Str("boom"), TableV("errobj")}      \* an error message, or an error value that is no string
ScriptDefs == {NilV}

\* keys a chunk stores in the global table besides names: _G[10] = 1, _G[true] = 1
GlobalKeys == {Num(10), BoolV}

\* what an entry point given to OpenLib does when it is called with the
\* module name: "raises" a Lua error; "registers" the module table in the
\* global of that name itself and returns it (luaL_register); "returns" the
\* module table and sets no global (luaL_newlib)
OpenFs == {"raises", "registers", "returns"}

\* what the VM does with a chunk: the status of compiling it, the status of
\* running it, the error value it raises, the values it returns
Scripts == [compile : {lua_ok, LUA_ERRSYNTAX, LUA_ERRFILE, LUA_ERRMEM},
            run : {lua_ok, LUA_ERRRUN},
            err : ErrVals,
            nres : 0..MaxResults,
            def : ScriptDefs]

\* one script for each distinct behaviour: a chunk that fails returns and
\* defines nothing, one that does not fail has no error value to choose
Plain(sc) == sc.nres = 0 /\ sc.def = NilV
FirstErr == CHOOSE e \in ErrVals : e.tag = "string"
FileScripts == {sc \in Scripts :
                   /\ sc.compile # lua_ok => Plain(sc) /\ sc.run = lua_ok
                   /\ sc.compile = lua_ok /\ sc.run # lua_ok => Plain(sc)
                   /\ sc.compile = lua_ok /\ sc.run = lua_ok => sc.err = FirstErr}
TextScripts == {sc \in FileScripts : sc.compile # LUA_ERRFILE}

\* chunks that run and store one key in the global table
KeyScripts == {[compile |-> lua_ok, run |-> lua_ok, err |-> FirstErr, nres |-> 0, def |-> k] :
                  k \in GlobalKeys}

RECURSIVE Results(_)
Results(k) == IF k <= 0 THEN <<>> ELSE <<Num(k)>> \o Results(k - 1)

HasKey(glb, key) == \E i \in 1..Len(glb) : glb[i].k = key
Define(glb, key) == IF key = NilV \/ HasKey(glb, key) THEN glb
                    ELSE Append(glb, [k |-> key, v |-> Num(1)])

\* lua_pcall(L, 0, LUA_MULTRET, 0) on a stack whose top is the chunk: the
\* chunk is replaced by its results, or by the error value
pcall_stack(stk, sc) == lua_pop(stk, 1) \o (IF sc.run = lua_ok THEN Results(sc.nres) ELSE <<sc.err>>)
pcall_globals(glb, sc) == IF sc.run = lua_ok THEN Define(glb, sc.def) ELSE glb

\* ------------------------------------------------------- State::Load
\* a Load that calls the stack top whatever luaL_loadfile returned
LoadRunsAnyway(l, hp, stk, glb, file, sc) ==
    LET pre == <<VM("lua_gettop", l), VM("luaL_loadfile", l), VM("lua_pcall", l)>>
        ok == sc.compile = lua_ok /\ sc.run = lua_ok
    IN IF ok THEN Outcome(stk, pcall_globals(glb, sc), pre \o <<VM("lua_settop", l)>>, "true", "none")
       ELSE Outcome(stk, glb, pre \o <<VM("lua_tostring", l)>>
                                  \o Handle(hp, LUA_ERRRUN, file \o ": dofile failed")
                                  \o <<VM("lua_settop", l)>>, "false", "none")

\* a Load that reports every compile status that is not success
LoadReportsEveryCode(l, hp, stk, glb, file, sc) ==
    LET pre == <<VM("lua_gettop", l), VM("luaL_loadfile", l)>>
    IN IF sc.compile # lua_ok
       THEN Outcome(stk, glb, pre \o <<VM("lua_tostring", l)>>
                                  \o Handle(hp, sc.compile, file \o ": error")
                                  \o <<VM("lua_settop", l)>>, "false", "none")
       ELSE Outcome(stk, pcall_globals(glb, sc), pre \o <<VM("lua_pcall", l), VM("lua_settop", l)>>,
                    IF sc.run = lua_ok THEN "true" ELSE "false", "none")

Load(l, hp, stk, glb, file, sc) ==
    LET saved == savedStack(stk)
        loaded == Append(stk, IF sc.compile = lua_ok THEN FuncV(file) ELSE sc.err)
        pre == <<VM("lua_gettop", l), VM("luaL_loadfile", l)>>
        Exit(s, g, lg, ret) ==
            Outcome(ResetStack(s, saved), g, lg \o <<VM("lua_settop", l)>>, ret, "none")
        Report(s, g, lg, status, fallback) ==
            LET msg == lua_tostring(s[Len(s)])
                lg2 == lg \o <<VM("lua_tostring", l)>>
            IN IF hp = Null
               THEN Outcome(s, g, lg2 \o <<VM("deref_null_handler", l)>>, "none", "segv")
               ELSE Exit(s, g, lg2 \o Handle(hp, status, IF msg # NoMsg THEN msg ELSE file \o fallback), "false")
    IN IF sc.compile # lua_ok
       THEN IF sc.compile = LUA_ERRSYNTAX THEN Report(loaded, glb, pre, sc.compile, ": syntax error")
            ELSE IF sc.compile = LUA_ERRFILE THEN Report(loaded, glb, pre, sc.compile, ": file error")
            ELSE Exit(loaded, glb, pre, "false")
       ELSE LET called == pcall_stack(loaded, sc)
                g2 == pcall_globals(glb, sc)
                lg == pre \o <<VM("lua_pcall", l)>>
            IN IF sc.run = lua_ok THEN Exit(called, g2, lg, "true")
               ELSE Report(called, g2, lg, sc.run, ": dofile failed")

\* ------------------------------------------------- State::operator()
Execute(l, hp, stk, glb, sc) ==
    LET saved == savedStack(stk)
        status == luaL_dostring(sc.compile, sc.run)
        ran == IF sc.compile # lua_ok THEN Append(stk, sc.err)
               ELSE pcall_stack(Append(stk, FuncV("chunk")), sc)
        g2 == IF sc.compile # lua_ok THEN glb ELSE pcall_globals(glb, sc)
        pre == <<VM("lua_gettop", l), VM("luaL_dostring", l)>>
    IN IF status # 0
       THEN IF hp = Null
            THEN Outcome(ran, g2, pre \o <<VM("deref_null_handler", l)>>, "none", "segv")
            ELSE Outcome(ResetStack(ran, saved), g2,
                         pre \o Handle_top_of_stack(hp, status, ran) \o <<VM("lua_settop", l)>>,
                         "false", "none")
       ELSE Outcome(ResetStack(ran, saved), g2, pre \o <<VM("lua_settop", l)>>, "true", "none")

\* --------------------------------------------------- State::OpenLib
\* new502: LUA_VERSION_NUM >= 502.  openf: what the entry point does (OpenFs).
\* Both luaL_requiref and lua_call run openf unprotected.  luaL_requiref
\* (glb = 1) stores the value openf returns in the global modname and leaves a
\* copy on the stack; lua_call(_l, 1, 0) discards what openf returns, so the
\* global exists only if openf created it.
OpenLib(l, stk, glb, modname, openf, new502) ==
    LET saved == savedStack(stk)
        pre == <<VM("lua_gettop", l)>>
        calls == IF new502 THEN <<VM("luaL_requiref", l)>>
                 ELSE <<VM("lua_pushcfunction", l), VM("lua_pushstring", l), VM("lua_call", l)>>
        pushed == IF new502 THEN Append(stk, FuncV(modname))
                  ELSE stk \o <<FuncV(modname), Str(modname)>>
        opened == IF new502 THEN Append(stk, TableV(modname)) ELSE stk
        g2 == IF new502 \/ openf = "registers" THEN Define(glb, Str(modname)) ELSE glb
    IN IF openf = "raises"
       THEN Outcome(pushed, glb, pre \o calls \o <<VM("panic", l)>>, "none", "panic")
       ELSE Outcome(ResetStack(opened, saved), g2,
                    pre \o calls \o <<VM("lua_settop", l)>>, "void", "none")

\* ----------------------------------------------------- State::ForceGC
\* a ForceGC that collects nothing
ForceGCSkipped(l, stk, glb) == Outcome(stk, glb, <<>>, "void", "none")

ForceGC(l, stk, glb) == Outcome(stk, glb, <<VM("lua_gc", l)>>, "void", "none")

\* -------------------------------------------------------- State::Size
Size(l, stk, glb) == Outcome(stk, glb, <<VM("lua_gettop", l)>>, "int", "none")

\* -------------------------------------------- State::InteractiveDebug
\* luaL_dostring(_l, "debug.debug()"): a runtime error unless the debug
\* library is loaded; nothing resets the stack afterwards
InteractiveDebug(l, stk, glb) ==
    LET hasDebug == HasKey(glb, Str("debug"))
        sc == [compile |-> lua_ok, run |-> IF hasDebug THEN lua_ok ELSE LUA_ERRRUN,
               err |-> Str("attempt to index a nil value"), nres |-> 0, def |-> NilV]
    IN Outcome(pcall_stack(Append(stk, FuncV("chunk")), sc), glb,
               <<VM("luaL_dostring", l)>>, "void", "none")

\* ------------------------------------------------- State::GlobalNames
\* the while loop: i - 1 pairs have been visited, the stack top is the
\* previous key; lua_next pops it and pushes the next key and its value.
\* trace: the stack at each call of lua_next, in order
RECURSIVE GlobalNamesLoop(_, _, _, _, _, _)
GlobalNamesLoop(l, stk, glb, i, names, lg) ==
    LET popped == lua_pop(stk, 1)
        lg1 == Append(lg, VM("lua_next", l))
    IN IF i > Len(glb)
       THEN [stack |-> popped, names |-> names, log |-> lg1, trace |-> <<stk>>]
       ELSE LET s2 == popped \o <<glb[i].k, glb[i].v>>
                key == s2[Len(s2) - 1]
                type == key.tag
                names2 == IF type = "string" THEN Append(names, lua_tostring(key))
                          ELSE IF type = "number" THEN Append(names, FormatG(key.n))
                          ELSE names
                lg2 == lg1 \o <<VM("lua_type", l)>>
                           \o (IF type = "string" THEN <<VM("lua_tostring", l)>>
                               ELSE IF type = "number" THEN <<VM("lua_tonumber", l)>>
                               ELSE <<>>)
                           \o <<VM("lua_pop", l)>>
                rest == GlobalNamesLoop(l, lua_pop(s2, 1), glb, i + 1, names2, lg2)
            IN [rest EXCEPT !.trace = <<stk>> \o @]

\* GlobalNames without its last lua_pop: the global table stays on the stack
GlobalNamesKeepsTable(l, stk, glb) ==
    LET s0 == stk \o <<TableV("_G"), NilV>>
        r == GlobalNamesLoop(l, s0, glb, 1, <<>>,
                             <<VM("lua_pushglobaltable", l), VM("lua_pushnil", l)>>)
    IN [stack |-> r.stack, names |-> r.names, log |-> r.log,
        trace |-> r.trace, ended |-> r.stack]

\* GlobalNames without lua_pushnil: the first key given to lua_next is the table
GlobalNamesNoSentinel(l, stk, glb) ==
    LET s0 == stk \o <<TableV("_G"), TableV("_G")>>
        r == GlobalNamesLoop(l, s0, glb, 1, <<>>,
                             <<VM("lua_pushglobaltable", l), VM("lua_pushglobaltable", l)>>)
    IN [stack |-> lua_pop(r.stack, 1), names |-> r.names, log |-> Append(r.log, VM("lua_pop", l)),
        trace |-> r.trace, ended |-> r.stack]

GlobalNamesResult(l, stk, glb) ==
    LET s0 == stk \o <<TableV("_G"), NilV>>
        r == GlobalNamesLoop(l, s0, glb, 1, <<>>,
                             <<VM("lua_pushglobaltable", l), VM("lua_pushnil", l)>>)
    IN [stack |-> lua_pop(r.stack, 1), names |-> r.names, log |-> Append(r.log, VM("lua_pop", l)),
        trace |-> r.trace, ended |-> r.stack]

\* a GlobalNames whose loop has no branch for number keys
GlobalNamesSkipsNumbers(l, stk, glb) ==
    LET r == GlobalNamesResult(l, stk, glb)
        strings == SelectSeq(glb, LAMBDA e : e.k.tag = "string")
    IN [Outcome(r.stack, glb, r.log, "names", "none")
           EXCEPT !.names = [i \in 1..Len(strings) |-> strings[i].k.s]]

\* a GlobalNames that clears each entry it has visited
GlobalNamesConsumes(l, stk, glb) ==
    LET r == GlobalNamesResult(l, stk, glb)
    IN [Outcome(r.stack, <<>>, r.log, "names", "none") EXCEPT !.names = r.names]

GlobalNames(l, stk, glb) ==
    LET r == GlobalNamesResult(l, stk, glb)
    IN [Outcome(r.stack, glb, r.log, "names", "none") EXCEPT !.names = r.names]


\* ---------------------------------------------------------------- state
VARIABLES
    obj,        \* the State objects: _l, _l_owner, _registry, _exception_handler
    vm,         \* the lua_State instances: stack, global table, finalization
    new502,     \* the build: LUA_VERSION_NUM >= 502
    log,        \* the VM calls and callback invocations of the last call, in order
    last,       \* the last call: operation, object, handle and depth at entry, result
    fault       \* "none", or how the process ended ("segv", "corrupt", "panic")

vars == <<obj, vm, new502, log, last, fault>>

\* a State that is not constructed (yet, or any more)
NoState(st) == [st |-> st, l |-> Null, owner |-> FALSE, registry |-> Null,
                handler |-> Null, built |-> "none", adopted |-> FALSE, req |-> Null]

NoCloser == [owner |-> FALSE, built |-> "none", adopted |-> FALSE]
FreeVM == [st |-> "free", stack |-> <<>>, globals |-> <<>>, closes |-> 0, closer |-> NoCloser]

NoCall == [op |-> "none", self |-> 0, h |-> Null, before |-> 0, ret |-> "none",
           names |-> <<>>, src |-> 0, srcl |-> Null, compile |-> lua_ok, run |-> lua_ok,
           err |-> NilV, file |-> ""]

Live(o) == obj[o].st = "live"
Open(h) == h # Null /\ vm[h].st = "open"
\* the process is alive and the host is between two statements
Running == fault = "none" /\ last.op = "none"

Init ==
    /\ obj = [o \in Obj |-> NoState("none")]
    /\ vm = [h \in Handles |-> FreeVM]
    /\ new502 \in BOOLEAN
    /\ log = <<>>
    /\ last = NoCall
    /\ fault = "none"

\* the globals luaL_openlibs defines (a few of them)
LibGlobals == <<[k |-> Str("string"), v |-> TableV("string")],
                [k |-> Str("debug"), v |-> TableV("debug")]>>

\* luaL_newstate: the next unused instance
FreeHandles == {h \in Handles : vm[h].st = "free"}
NewHandle == CHOOSE h \in FreeHandles : \A g \in FreeHandles : h <= g

\* the host names its State objects in the order it constructs them
NextObj(o) == obj[o].st = "none" /\ \A p \in Obj : p < o => obj[p].st # "none"

\* ---------------------------------------------- State::State(bool)
Create(o, should_open_libs) ==
    /\ Running /\ NextObj(o) /\ FreeHandles # {}
    /\ LET h == NewHandle
       IN /\ obj' = [obj EXCEPT ![o] = [st |-> "live", l |-> h, owner |-> TRUE, registry |-> h,
                                        handler |-> DefaultCb, built |-> "Create",
                                        adopted |-> FALSE, req |-> DefaultCb]]
          /\ vm' = [vm EXCEPT ![h] = [FreeVM EXCEPT !.st = "open",
                                        !.globals = IF should_open_libs THEN LibGlobals ELSE <<>>]]
          /\ log' = <<VM("luaL_newstate", h)>>
                     \o (IF should_open_libs THEN <<VM("luaL_openlibs", h)>> ELSE <<>>)
          /\ last' = [NoCall EXCEPT !.op = "Create", !.self = o, !.h = h, !.ret = "void"]
    /\ UNCHANGED <<new502, fault>>

\* luaL_newstate returned nullptr: the constructor throws, no State exists
CreateFails(o) ==
    /\ Running /\ NextObj(o)
    /\ log' = <<VM("luaL_newstate", Null)>>
    /\ last' = [NoCall EXCEPT !.op = "Create", !.self = o, !.ret = "throw"]
    /\ UNCHANGED <<obj, vm, new502, fault>>

\* ------------------------------------------ State::State(lua_State*)
\* the handle comes from LuaState() of a living State
Attach(o, p) ==
    /\ Running /\ NextObj(o) /\ Live(p) /\ Open(obj[p].l)
    /\ LET h == obj[p].l
       IN /\ obj' = [obj EXCEPT ![o] = [st |-> "live", l |-> h, owner |-> FALSE, registry |-> h,
                                        handler |-> DefaultCb, built |-> "Attach",
                                        adopted |-> FALSE, req |-> DefaultCb]]
          /\ last' = [NoCall EXCEPT !.op = "Attach", !.self = o, !.h = h, !.ret = "void"]
    /\ log' = <<>>
    /\ UNCHANGED <<vm, new502, fault>>

\* --------------------------------------------- State::State(State&&)
MovedTo(other) == [st |-> "live", l |-> other.l, owner |-> other.owner,
                   registry |-> other.registry, handler |-> Null,
                   built |-> "Move", adopted |-> FALSE, req |-> Null]

MoveConstruct(o, p) ==
    /\ Running /\ NextObj(o) /\ Live(p)
    /\ obj' = [obj EXCEPT ![o] = MovedTo(obj[p]),
                          ![p].l = Null, ![p].registry = Null]
    /\ log' = <<>>
    /\ last' = [NoCall EXCEPT !.op = "MoveConstruct", !.self = o, !.h = obj[p].l,
                              !.src = p, !.srcl = obj[p].l, !.ret = "void"]
    /\ UNCHANGED <<vm, new502, fault>>

\* ----------------------------------------- State::operator=(State&&)
\* a move assignment that takes the handle and keeps its own _l_owner
AssignedKeepsFlag(this, other) == [this EXCEPT !.l = other.l, !.registry = other.registry]

Assigned(this, other) == [this EXCEPT !.l = other.l, !.owner = other.owner,
                                      !.registry = other.registry, !.adopted = other.owner]

MoveAssign(o, p) ==
    /\ Running /\ Live(o) /\ Live(p)
    /\ obj' = IF o = p THEN obj
              ELSE [obj EXCEPT ![o] = Assigned(obj[o], obj[p]),
                               ![p].l = Null, ![p].registry = Null]
    /\ log' = <<>>
    /\ last' = [NoCall EXCEPT !.op = "MoveAssign", !.self = o, !.h = obj[p].l,
                              !.src = p, !.srcl = obj[p].l, !.ret = "void"]
    /\ UNCHANGED <<vm, new502, fault>>

\* ---------------------------------------------------- State::~State
\* a destructor that finalizes the handles it borrowed
ClosesBorrowedHandle(s) == s.l # Null /\ ~s.owner

\* a destructor that does not look at _l_owner
ClosesAnyHandle(s) == s.l # Null

Closes(s) == s.l # Null /\ s.owner

Destroy(o) ==
    /\ Running /\ Live(o)
    /\ LET s == obj[o]
           h == s.l
       IN /\ obj' = [obj EXCEPT ![o] = NoState("dead")]
          /\ last' = [NoCall EXCEPT !.op = "Destroy", !.self = o, !.h = h, !.ret = "void",
                                    !.before = IF h # Null THEN Len(vm[h].stack) ELSE 0]
          /\ IF Closes(s)
             THEN /\ vm' = [vm EXCEPT ![h].st = "closed", ![h].stack = <<>>,
                                      ![h].globals = <<>>, ![h].closes = @ + 1,
                                      ![h].closer = [owner |-> s.owner,
                                                     built |-> s.built, adopted |-> s.adopted]]
                  /\ log' = ForceGC(h, vm[h].stack, vm[h].globals).log \o <<VM("lua_close", h)>>
                  /\ fault' \in (IF vm[h].st = "open" THEN {"none"} ELSE {"segv", "corrupt"})
             ELSE /\ log' = <<>>
                  /\ UNCHANGED <<vm, fault>>
    /\ UNCHANGED new502


\* ------------------------------------------------- calls on a State
\* a VM call on a null handle dereferences it; a VM call on a finalized
\* handle reads freed memory
OnNull(call) == {Outcome(<<>>, <<>>, <<VM(call, Null)>>, "none", "segv")}
OnClosed(h, call) == {Outcome(<<>>, <<>>, <<VM(call, h)>>, "none", f) : f \in {"segv", "corrupt"}}

\* a call that runs no chunk of the host's
NoScript == [compile |-> lua_ok, run |-> lua_ok, err |-> NilV, nres |-> 0, def |-> NilV]

Invoke(o, op, r, sc, file) ==
    LET h == obj[o].l
    IN /\ vm' = IF Open(h) THEN [vm EXCEPT ![h].stack = r.stack, ![h].globals = r.globals]
                ELSE vm
       /\ log' = r.log
       /\ last' = [NoCall EXCEPT !.op = op, !.self = o, !.h = h, !.ret = r.ret,
                                 !.names = r.names, !.file = file, !.compile = sc.compile, !.run = sc.run,
                                 !.err = IF sc.compile # lua_ok \/ sc.run # lua_ok THEN sc.err ELSE NilV,
                                 !.before = IF Open(h) THEN Len(vm[h].stack) ELSE 0]
       /\ fault' = r.fault
       /\ UNCHANGED <<obj, new502>>

DoLoad(o, file, sc) ==
    /\ Running /\ Live(o)
    /\ LET s == obj[o]
       IN \E r \in (IF s.l = Null THEN OnNull("lua_gettop")
                    ELSE IF ~Open(s.l) THEN OnClosed(s.l, "lua_gettop")
                    ELSE {Load(s.l, s.handler, vm[s.l].stack, vm[s.l].globals, file, sc)}) :
              Invoke(o, "Load", r, sc, file)

DoExecute(o, sc) ==
    /\ Running /\ Live(o)
    /\ LET s == obj[o]
       IN \E r \in (IF s.l = Null THEN OnNull("lua_gettop")
                    ELSE IF ~Open(s.l) THEN OnClosed(s.l, "lua_gettop")
                    ELSE {Execute(s.l, s.handler, vm[s.l].stack, vm[s.l].globals, sc)}) :
              Invoke(o, "Execute", r, sc, "")

DoOpenLib(o, modname, openf) ==
    /\ Running /\ Live(o)
    /\ LET s == obj[o]
       IN \E r \in (IF s.l = Null THEN OnNull("lua_gettop")
                    ELSE IF ~Open(s.l) THEN OnClosed(s.l, "lua_gettop")
                    ELSE {OpenLib(s.l, vm[s.l].stack, vm[s.l].globals, modname, openf, new502)}) :
              Invoke(o, "OpenLib", r,
                     [NoScript EXCEPT !.run = IF openf = "raises" THEN LUA_ERRRUN ELSE lua_ok], "")

DoForceGC(o) ==
    /\ Running /\ Live(o)
    /\ LET s == obj[o]
       IN \E r \in (IF s.l = Null THEN OnNull("lua_gc")
                    ELSE IF ~Open(s.l) THEN OnClosed(s.l, "lua_gc")
                    ELSE {ForceGC(s.l, vm[s.l].stack, vm[s.l].globals)}) :
              Invoke(o, "ForceGC", r, NoScript, "")

DoSize(o) ==
    /\ Running /\ Live(o)
    /\ LET s == obj[o]
       IN \E r \in (IF s.l = Null THEN OnNull("lua_gettop")
                    ELSE IF ~Open(s.l) THEN OnClosed(s.l, "lua_gettop")
                    ELSE {Size(s.l, vm[s.l].stack, vm[s.l].globals)}) :
              Invoke(o, "Size", r, NoScript, "")

DoInteractiveDebug(o) ==
    /\ Running /\ Live(o)
    /\ LET s == obj[o]
       IN /\ Open(s.l) => Len(vm[s.l].stack) < MaxDepth
          /\ \E r \in (IF s.l = Null THEN OnNull("luaL_dostring")
                       ELSE IF ~Open(s.l) THEN OnClosed(s.l, "luaL_dostring")
                       ELSE {InteractiveDebug(s.l, vm[s.l].stack, vm[s.l].globals)}) :
                 Invoke(o, "InteractiveDebug", r, NoScript, "")

\* if (!_l) return globals;
DoGlobalNames(o) ==
    /\ Running /\ Live(o)
    /\ LET s == obj[o]
       IN \E r \in (IF s.l = Null THEN {Outcome(<<>>, <<>>, <<>>, "names", "none")}
                    ELSE IF ~Open(s.l) THEN OnClosed(s.l, "lua_pushglobaltable")
                    ELSE {GlobalNames(s.l, vm[s.l].stack, vm[s.l].globals)}) :
              Invoke(o, "GlobalNames", r, NoScript, "")

\* ------------------------------------------------ State::operator[]
\* Selector(_l, *_registry, *_exception_handler, name): binding a
\* reference through a null unique_ptr either traps or yields a Selector
\* holding a null reference
Index(s) ==
    IF s.registry = Null \/ s.handler = Null
    THEN LET what == IF s.registry = Null THEN "deref_null_registry" ELSE "deref_null_handler"
         IN {Outcome(<<>>, <<>>, <<VM(what, s.l)>>, "none", "segv"),
             Outcome(<<>>, <<>>, <<VM(what, s.l)>>, "selector", "none")}
    ELSE {Outcome(<<>>, <<>>, <<>>, "selector", "none")}

DoIndex(o) ==
    /\ Running /\ Live(o)
    /\ \E r \in Index(obj[o]) :
          /\ log' = r.log
          /\ last' = [NoCall EXCEPT !.op = "Index", !.self = o, !.h = obj[o].l, !.ret = r.ret,
                                    !.before = IF Open(obj[o].l) THEN Len(vm[obj[o].l].stack) ELSE 0]
          /\ fault' = r.fault
    /\ UNCHANGED <<obj, vm, new502>>

\* ----------------------------------------- State::HandleExceptionsWith
\* *_exception_handler = ExceptionHandler(std::move(handler))
\* a HandleExceptionsWith that assigns to a copy and leaves the old callback
HandleExceptionsKeepsOld(s, handler) == s

HandleExceptionsWith(s, handler) == [s EXCEPT !.handler = handler]

Install(o, cb) ==
    /\ Running /\ Live(o)
    /\ IF obj[o].handler = Null
       THEN /\ log' = <<VM("deref_null_handler", obj[o].l)>>
            /\ fault' = "segv"
            /\ last' = [NoCall EXCEPT !.op = "HandleExceptionsWith", !.self = o, !.h = obj[o].l]
            /\ UNCHANGED obj
       ELSE /\ obj' = [obj EXCEPT ![o] = [HandleExceptionsWith(obj[o], cb) EXCEPT !.req = cb]]
            /\ log' = <<>>
            /\ last' = [NoCall EXCEPT !.op = "HandleExceptionsWith", !.self = o,
                                      !.h = obj[o].l, !.ret = "void"]
            /\ UNCHANGED fault
    /\ UNCHANGED <<vm, new502>>

DoHandleExceptionsWith(o, cb) ==
    /\ cb \in UserCbs
    /\ Install(o, cb)

\* ------------------------------ State::HandleExceptionsPrintingToStdOut
DoHandleExceptionsPrintingToStdOut(o) ==
    /\ DefaultCb \notin UserCbs
    /\ Install(o, DefaultCb)

\* the host has looked at the outcome of its last statement and goes on
HostContinues ==
    /\ fault = "none" /\ last.op # "none"
    /\ last' = NoCall
    /\ log' = <<>>
    /\ UNCHANGED <<obj, vm, new502, fault>>

\* the memory states of the objects are those of the constructors,
\* the move operations and the destructor
Lifecycle ==
    \/ \E o \in Obj, libs \in BOOLEAN : Create(o, libs)
    \/ \E o \in Obj : CreateFails(o)
    \/ \E o, p \in Obj : Attach(o, p)
    \/ \E o, p \in Obj : MoveConstruct(o, p)
    \/ \E o, p \in Obj : MoveAssign(o, p)
    \/ \E o \in Obj : Destroy(o)

Next ==
    \/ HostContinues
    \/ Lifecycle
    \/ \E o \in Obj, file \in Files, sc \in FileScripts : DoLoad(o, file, sc)
    \/ \E o \in Obj, sc \in TextScripts : DoExecute(o, sc)
    \/ \E o \in Obj, m \in ModNames, openf \in OpenFs : DoOpenLib(o, m, openf)
    \/ \E o \in Obj : DoForceGC(o)
    \/ \E o \in Obj : DoSize(o)
    \/ \E o \in Obj : DoInteractiveDebug(o)
    \/ \E o \in Obj : DoGlobalNames(o)
    \/ \E o \in Obj : DoIndex(o)
    \/ \E o \in Obj, cb \in UserCbs : DoHandleExceptionsWith(o, cb)
    \/ \E o \in Obj : DoHandleExceptionsPrintingToStdOut(o)

\* every operation of State, in any order
Spec == Init /\ [][Next]_vars

\* hosts that construct, move and destroy States and run nothing on them
NextLife ==
    \/ HostContinues
    \/ Lifecycle

SpecLife == Init /\ [][NextLife]_vars

\* hosts that construct States, move-construct and destroy them, and run
\* scripts, register modules, list globals and install handlers on them
NextOps ==
    \/ HostContinues
    \/ \E o \in Obj, libs \in BOOLEAN : Create(o, libs)
    \/ \E o, p \in Obj : Attach(o, p)
    \/ \E o, p \in Obj : MoveConstruct(o, p)
    \/ \E o \in Obj : Destroy(o)
    \/ \E o \in Obj, file \in Files, sc \in FileScripts : DoLoad(o, file, sc)
    \/ \E o \in Obj, sc \in TextScripts : DoExecute(o, sc)
    \/ \E o \in Obj, m \in ModNames, openf \in OpenFs : DoOpenLib(o, m, openf)
    \/ \E o \in Obj : DoInteractiveDebug(o)
    \/ \E o \in Obj : DoGlobalNames(o)
    \/ \E o \in Obj, cb \in UserCbs : DoHandleExceptionsWith(o, cb)
    \/ \E o \in Obj : DoHandleExceptionsPrintingToStdOut(o)

SpecOps == Init /\ [][NextOps]_vars

\* hosts that construct States, attach further States to their handles,
\* destroy them in any order and call the operations that use the handle
NextShared ==
    \/ HostContinues
    \/ \E o \in Obj, libs \in BOOLEAN : Create(o, libs)
    \/ \E o, p \in Obj : Attach(o, p)
    \/ \E o \in Obj : Destroy(o)
    \/ \E o \in Obj, file \in Files, sc \in FileScripts : DoLoad(o, file, sc)
    \/ \E o \in Obj, sc \in TextScripts : DoExecute(o, sc)
    \/ \E o \in Obj, m \in ModNames, openf \in OpenFs : DoOpenLib(o, m, openf)
    \/ \E o \in Obj : DoForceGC(o)
    \/ \E o \in Obj : DoSize(o)
    \/ \E o \in Obj : DoInteractiveDebug(o)
    \/ \E o \in Obj : DoGlobalNames(o)

SpecShared == Init /\ [][NextShared]_vars

\* hosts that construct States, fill the global table from scripts, leave
\* values on the stack and list the globals
NextGlobals ==
    \/ HostContinues
    \/ \E o \in Obj, libs \in BOOLEAN : Create(o, libs)
    \/ \E o, p \in Obj : MoveConstruct(o, p)
    \/ \E o \in Obj, sc \in KeyScripts : DoExecute(o, sc)
    \/ \E o \in Obj : DoInteractiveDebug(o)
    \/ \E o \in Obj : DoGlobalNames(o)

SpecGlobals == Init /\ [][NextGlobals]_vars


\* ------------------------------------------------------------ the claims
ScriptOps == {"Load", "Execute"}
GuardedOps == {"Load", "Execute", "OpenLib", "GlobalNames"}
StateOps == {"Load", "Execute", "OpenLib", "GlobalNames", "ForceGC", "Size",
             "InteractiveDebug", "Index", "HandleExceptionsWith"}
Moves == {"MoveConstruct", "MoveAssign"}

CallbackEvents == SelectSeq(log, LAMBDA e : e.ev = "callback")
Made(call) == \E i \in DOMAIN log : log[i].ev = call
Returned == fault = "none" /\ last.op # "none"
Depth(h) == Len(vm[h].stack)

\* C1: a Load, operator(), OpenLib or GlobalNames call on a State with a
\* live handle, when it returns, leaves the handle's stack as deep as it
\* found it, whatever the outcome of the script or registration
C1_StackDepthPreserved ==
    (last.op \in GuardedOps /\ Returned /\ Open(last.h)) => Depth(last.h) = last.before

\* a Load whose chunk failed at run time returned, on a stack that was not empty
C1_Witness ==
    /\ last.op = "Load" /\ Returned /\ Open(last.h)
    /\ last.compile = lua_ok /\ last.run # lua_ok /\ last.ret = "false"
    /\ last.before > 0 /\ Depth(last.h) = last.before

\* C2, as claimed: a handle is finalized at most once, by a State whose
\* ownership flag is set, and never by a State that Attach built
C2_NeverFinalizedByAttached ==
    \A h \in Handles :
        /\ vm[h].closes <= 1
        /\ vm[h].st = "closed" => vm[h].closer.owner /\ vm[h].closer.built # "Attach"

\* C2, amended: a handle is finalized at most once, by a State whose
\* ownership flag is set; a State that Attach built finalizes one only
\* after an owning State was move-assigned into it
C2_FinalizedOnlyByOwner ==
    \A h \in Handles :
        /\ vm[h].closes <= 1
        /\ vm[h].st = "closed" =>
              /\ vm[h].closer.owner
              /\ vm[h].closer.built = "Attach" => vm[h].closer.adopted

\* a State built with Attach has finalized a handle
C2_Witness ==
    \E h \in Handles : vm[h].st = "closed" /\ vm[h].closes = 1
                       /\ vm[h].closer.built = "Attach" /\ vm[h].closer.adopted

\* C3: once no State is alive, every handle luaL_newstate handed out has
\* been finalized exactly once
C3_EveryHandleFinalizedOnce ==
    (\A o \in Obj : ~Live(o)) => \A h \in Handles : vm[h].st # "free" => vm[h].closes = 1

\* C4: after a move the destination has the handle, the ownership flag,
\* the registry and the error reporter the source had
C4_MovedToIsTheOriginal ==
    (last.op \in Moves /\ last.src # last.self) =>
        /\ obj[last.self].l = last.srcl
        /\ obj[last.self].registry = last.srcl
        /\ obj[last.self].owner = obj[last.src].owner
        /\ obj[last.self].handler = obj[last.src].handler

\* C5: an operation on a State whose handle was moved out makes no VM
\* call, dereferences no empty member and ends normally
C5_MovedFromIsInert ==
    (last.op \in StateOps \cup {"Destroy"} /\ last.h = Null) => fault = "none" /\ log = <<>>

\* C6: operator() returns true without a callback when the chunk compiled
\* and ran; otherwise it returns false after one invocation of the
\* installed callback with the status and the message on the stack top
C6_ExecuteReportsOnce ==
    (last.op = "Execute" /\ Made("luaL_dostring")) =>
        LET status == luaL_dostring(last.compile, last.run)
        IN IF status = 0
           THEN last.ret = "true" /\ CallbackEvents = <<>>
           ELSE /\ last.ret = "false"
                /\ CallbackEvents = <<Callback(obj[last.self].handler, status, lua_tostring(last.err))>>

\* C7: Load returns true exactly when the file compiled and ran, without a
\* callback; on a syntax error, a file error or a failed run it returns
\* false after one invocation of the installed callback with the status and
\* the message on the stack top, or the fallback text
LoadStatus == IF last.compile # lua_ok THEN last.compile ELSE last.run
LoadFallback == CASE last.compile = LUA_ERRSYNTAX -> ": syntax error"
                  [] last.compile = LUA_ERRFILE -> ": file error"
                  [] OTHER -> ": dofile failed"
LoadMessage == IF lua_tostring(last.err) # NoMsg THEN lua_tostring(last.err)
               ELSE last.file \o LoadFallback
LoadReportable == last.compile \in {LUA_ERRSYNTAX, LUA_ERRFILE}
                  \/ (last.compile = lua_ok /\ last.run # lua_ok)

C7_LoadReportsOnce ==
    (last.op = "Load" /\ Made("luaL_loadfile")) =>
        /\ last.ret = "true" <=> (last.compile = lua_ok /\ last.run = lua_ok)
        /\ last.ret = "true" => CallbackEvents = <<>>
        /\ LoadReportable =>
              /\ last.ret = "false"
              /\ CallbackEvents = <<Callback(obj[last.self].handler, LoadStatus, LoadMessage)>>

\* C8: on a State on which a callback has been installed, a failure of
\* Load or operator() invokes the callback installed last, once, and a
\* callback installed earlier is never invoked
Failed == IF last.op = "Load" THEN LoadReportable
          ELSE luaL_dostring(last.compile, last.run) # 0
VMAnswered == Made("luaL_loadfile") \/ Made("luaL_dostring")

C9_NoPanic ==
    last.op \in {"Load", "Execute", "OpenLib"} => fault # "panic"

\* C10: every operation of State that returns leaves the stack of its
\* handle as deep as it found it
C10_EveryOperationRestoresDepth ==
    (last.op \in StateOps /\ Returned /\ Open(last.h)) => Depth(last.h) = last.before

\* C11: GlobalNames on a State without a handle returns an empty list and
\* calls nothing; on a live handle it returns, in iteration order, the text
\* of every string key and the decimal text of every number key of the
\* global table and nothing for a key of another type; on a handle just
\* created with the standard libraries the list has the library names
KeyText(k) == IF k.tag = "string" THEN k.s
              ELSE IF k.n < 0 THEN "-" \o Decimal(0 - k.n) ELSE Decimal(k.n)
Listed(glb) == SelectSeq(glb, LAMBDA e : e.k.tag \in {"string", "number"})
ExpectedNames(glb) == [i \in 1..Len(Listed(glb)) |-> KeyText(Listed(glb)[i].k)]
Has(names, name) == \E i \in DOMAIN names : names[i] = name

C11_GlobalNamesListsKeys ==
    /\ (last.op = "GlobalNames" /\ Returned /\ last.h = Null) =>
           last.names = <<>> /\ log = <<>>
    /\ (last.op = "GlobalNames" /\ Returned /\ Open(last.h)) =>
           last.names = ExpectedNames(vm[last.h].globals)
    /\ (last.op = "Create" /\ Made("luaL_openlibs")) =>
           LET r == GlobalNames(last.h, vm[last.h].stack, vm[last.h].globals)
           IN \A i \in DOMAIN LibGlobals : Has(r.names, LibGlobals[i].k.s)

\* the globals of a handle with the standard libraries, a number key and a
\* boolean key were listed: the library names and "10", nothing for true
C11_Witness ==
    /\ last.op = "GlobalNames" /\ Returned /\ Open(last.h)
    /\ HasKey(vm[last.h].globals, BoolV) /\ HasKey(vm[last.h].globals, Num(10))
    /\ Has(last.names, "string") /\ Has(last.names, "10")
    /\ Len(last.names) = Len(vm[last.h].globals) - 1

\* C12: a GlobalNames call that returns changes neither the stack nor the
\* global table of any handle, and a second call right after it would return
\* the same list
C12_GlobalNamesLeavesVM ==
    [][(last.op = "none" /\ last'.op = "GlobalNames" /\ fault' = "none") =>
          /\ vm' = vm
          /\ Open(last'.h) =>
                last'.names = GlobalNames(last'.h, vm'[last'.h].stack, vm'[last'.h].globals).names]_vars

\* globals were listed on a stack that was not empty, from a table with a
\* key that is listed and a key that is not
C12_Witness ==
    /\ last.op = "GlobalNames" /\ Returned /\ Open(last.h)
    /\ last.before > 0 /\ Depth(last.h) = last.before
    /\ \E i, j \in DOMAIN vm[last.h].globals :
          vm[last.h].globals[i].k.tag = "number" /\ vm[last.h].globals[j].k.tag = "boolean"
    /\ last.names # <<>>

\* C13, as claimed: no handle has two live owning States; a State that
\* Create built is owning and one that Attach built is not, in every state;
\* a move leaves the source without a handle
Owners(h) == {o \in Obj : Live(o) /\ obj[o].l = h /\ obj[o].owner}

C13_OwnershipFixedAtConstruction ==
    /\ \A h \in Handles : Cardinality(Owners(h)) <= 1
    /\ \A o \in Obj : Live(o) =>
          /\ obj[o].built = "Create" => obj[o].owner
          /\ obj[o].built = "Attach" => ~obj[o].owner
    /\ (last.op \in Moves /\ last.src # last.self) => obj[last.src].l = Null

\* C13, amended: no handle has two live owning States; Create leaves an
\* owning State and Attach one that is not; a move leaves the source without
\* a handle and gives the destination the handle and the ownership flag of
\* the source, whichever constructor built the destination
C13_OneOwnerPerHandle ==
    /\ \A h \in Handles : Cardinality(Owners(h)) <= 1
    /\ (last.op = "Create" /\ last.ret = "void") =>
          obj[last.self].owner /\ obj[last.self].l = last.h
    /\ last.op = "Attach" => ~obj[last.self].owner /\ obj[last.self].l = last.h
    /\ (last.op \in Moves /\ last.src # last.self) =>
          /\ obj[last.src].l = Null
          /\ obj[last.self].l = last.srcl
          /\ obj[last.self].owner = obj[last.src].owner

\* a State that Attach built is the one owner of a live handle
C13_Witness ==
    \E o \in Obj : /\ Live(o) /\ obj[o].built = "Attach" /\ obj[o].owner
                    /\ Open(obj[o].l) /\ Owners(obj[o].l) = {o}

\* C14: the destructor of an owning State with a handle forces a full
\* collection and then finalizes the handle, and calls nothing on it
\* afterwards; the destructor of any other State makes no VM call
C14_CollectThenFinalize ==
    [][\A o \in Obj :
          (obj[o].st = "live" /\ obj'[o].st = "dead") =>
              IF obj[o].l # Null /\ obj[o].owner
              THEN /\ log' = <<VM("lua_gc", obj[o].l), VM("lua_close", obj[o].l)>>
                   /\ vm'[obj[o].l].st = "closed"
              ELSE log' = <<>> /\ vm' = vm]_vars

\* an owning State was destroyed: lua_gc, then lua_close, on its handle
C14_Witness ==
    /\ last.op = "Destroy" /\ last.h # Null /\ vm[last.h].st = "closed"
    /\ Len(log) = 2 /\ log[1] = VM("lua_gc", last.h) /\ log[2] = VM("lua_close", last.h)

\* C15: a Load whose compile step fails with a status that is neither
\* LUA_ERRSYNTAX nor LUA_ERRFILE returns false, and the callback is not invoked
C15_SilentCompileFailure ==
    (last.op = "Load" /\ Made("luaL_loadfile")
       /\ last.compile \notin {lua_ok, LUA_ERRSYNTAX, LUA_ERRFILE}) =>
        /\ fault = "none" /\ last.ret = "false"
        /\ CallbackEvents = <<>>
        /\ ~Made("lua_pcall")

\* a Load failed with LUA_ERRMEM on a State that has a callback installed
C15_Witness ==
    /\ last.op = "Load" /\ Returned /\ last.compile = LUA_ERRMEM
    /\ last.ret = "false" /\ CallbackEvents = <<>>
    /\ obj[last.self].handler # Null

\* C16: after an OpenLib call that returns, on either build, the stack is as
\* deep as before and a script that calls a function of the module runs:
\* operator() returns true
ModuleCall(glb, m) ==
    [compile |-> lua_ok, run |-> IF HasKey(glb, Str(m)) THEN lua_ok ELSE LUA_ERRRUN,
     err |-> Str("attempt to index a nil value"), nres |-> 0, def |-> NilV]

C16_ModuleReachableOnBothABIs ==
    (last.op = "OpenLib" /\ Returned /\ Open(last.h)) =>
        /\ Depth(last.h) = last.before
        /\ \A m \in ModNames :
              LET h == last.h
                  r == Execute(h, obj[last.self].handler, vm[h].stack, vm[h].globals,
                               ModuleCall(vm[h].globals, m))
              IN r.ret = "true"

\* C17: the calls of one Load come in the order lua_gettop (the guard),
\* luaL_loadfile, lua_pcall, lua_settop (the guard), with at most one
\* callback invocation, after the step that failed; lua_pcall is made at
\* most once and only when luaL_loadfile returned success; after a compile
\* failure nothing is called; a Load that returns ends with the lua_settop
Idx(call) == {i \in DOMAIN log : log[i].ev = call}

C17_LoadStepOrder ==
    (last.op = "Load" /\ Made("luaL_loadfile")) =>
        /\ log[1].ev = "lua_gettop" /\ log[2].ev = "luaL_loadfile"
        /\ Idx("luaL_loadfile") = {2}
        /\ Idx("lua_pcall") = (IF last.compile = lua_ok THEN {3} ELSE {})
        /\ Cardinality(Idx("callback")) <= 1
        /\ \A i \in Idx("callback") :
              /\ \A j \in Idx("luaL_loadfile") \cup Idx("lua_pcall") : j < i
              /\ \A j \in Idx("lua_settop") : i < j
              /\ last.compile # lua_ok \/ last.run # lua_ok
        /\ Cardinality(Idx("lua_settop")) <= 1
        /\ \A i \in Idx("lua_settop") : i = Len(log)
        /\ Returned => Idx("lua_settop") = {Len(log)}

\* a Load compiled its file, ran it, reported the failure of the run and
\* released the guard
C17_Witness ==
    /\ last.op = "Load" /\ Returned /\ last.compile = lua_ok /\ last.run = LUA_ERRRUN
    /\ Idx("lua_pcall") = {3} /\ Idx("callback") = {5} /\ Idx("lua_settop") = {6}

\* C18, as claimed: every failure of Load or operator() that the VM
\* answered invokes the callback, with the message read from the value the
\* VM pushed for this failure, before the guard's lua_settop
PushedMessage == IF last.op = "Load" THEN LoadMessage ELSE lua_tostring(last.err)
ReportedFromTop ==
    \A i \in Idx("callback") :
        /\ log[i].msg = PushedMessage
        /\ \A j \in Idx("lua_settop") : i < j
        /\ \A j \in Idx("luaL_loadfile") \cup Idx("lua_pcall") \cup Idx("luaL_dostring") : j < i

C19_IterationProtocol ==
    (last.op = "GlobalNames" /\ Returned /\ Open(last.h)) =>
        LET stk == vm[last.h].stack
            glb == vm[last.h].globals
            d == Len(stk)
            r == GlobalNamesResult(last.h, stk, glb)
        IN /\ log = r.log /\ d = last.before
           /\ Len(r.trace) = Len(glb) + 1
           /\ Cardinality(Idx("lua_next")) = Len(r.trace)
           /\ \A k \in DOMAIN r.trace :
                 /\ Len(r.trace[k]) = d + 2
                 /\ SubSeq(r.trace[k], 1, d) = stk
                 /\ r.trace[k][d + 1] = TableV("_G")
                 /\ r.trace[k][d + 2] = (IF k = 1 THEN NilV ELSE glb[k - 1].k)
           /\ r.ended = Append(stk, TableV("_G"))
           /\ r.stack = stk
           /\ log[Len(log)].ev = "lua_pop"

\* the globals of a table with four keys were listed: five calls of lua_next
C19_Witness ==
    /\ last.op = "GlobalNames" /\ Returned /\ Open(last.h)
    /\ Len(vm[last.h].globals) = 4
    /\ Cardinality(Idx("lua_next")) = 5 /\ Cardinality(Idx("lua_pop")) = 5

\* C20: a handle is finalized by the destructor of an owning State, and
\* after that step a live State still holds it exactly when another State
\* held it at that time (the owner died before a borrower); no State comes
\* to hold a finalized handle in any other way; a VM call on a finalized
\* handle is made only by a State left holding it; and an operation of
\* such a State that uses its handle does call the VM on the finalized handle
UsesHandle == {"Load", "Execute", "OpenLib", "ForceGC", "Size", "InteractiveDebug", "GlobalNames"}
Holders(h) == {o \in Obj : Live(o) /\ obj[o].l = h}
HeldClosed == {h \in Handles : vm[h].st = "closed" /\ Holders(h) # {}}

C20_FinalizedHandleUsedOnlyByOutlivingBorrower ==
    [][/\ \A h \in Handles :
             (vm[h].st = "open" /\ vm'[h].st = "closed") =>
                 \E o \in Holders(h) :
                     /\ obj[o].owner /\ obj'[o].st = "dead"
                     /\ (h \in HeldClosed') <=> (Holders(h) # {o})
       /\ \A h \in Handles : (h \in HeldClosed' /\ h \notin HeldClosed) => vm[h].st = "open"
       /\ \A i \in DOMAIN log' :
             (log'[i].h # Null /\ vm[log'[i].h].st = "closed") =>
                 last'.self \in Holders(log'[i].h)
       /\ \A o \in Obj :
             (/\ o \in Holders(obj[o].l) /\ obj[o].l \in HeldClosed
              /\ last.op = "none" /\ last'.self = o /\ last'.op \in UsesHandle) =>
                 /\ \E i \in DOMAIN log' : log'[i].h = obj[o].l
                 /\ fault' \in {"segv", "corrupt"}]_vars

\* a State attached to a handle outlived its owner and then used the handle
C20_Witness ==
    /\ last.op \in UsesHandle /\ last.h # Null /\ vm[last.h].st = "closed"
    /\ Live(last.self) /\ obj[last.self].l = last.h /\ ~obj[last.self].owner
    /\ fault # "none" /\ \E i \in DOMAIN log : log[i].h = last.h

====
